---- MODULE Spec2Model ----
(***************************************************************************)
(* Model of the query service of movies-rust-bolt (src/src/main.rs):       *)
(* Service::graph (browse-subgraph and its node/link assembly),            *)
(* Service::movie (fetch-entity) and Service::vote (increment-counter).    *)
(*                                                                         *)
(* The datastore driver is an opaque capability: execute() and next() may  *)
(* fail at any call, and a row stream may deliver any rows.  usize indices *)
(* are 0-based as in the source; a Vec is a sequence, so the node with     *)
(* index i is nodes[i + 1].  Option<T> is a sequence of length 0 or 1.     *)
(***************************************************************************)
EXTENDS Integers, Sequences, FiniteSets, TLC

VARIABLES
    pc,        \* per invocation of Service::graph: position in the function
    browse,    \* per invocation: the `browse` argument while execute() is pending
    query,     \* per invocation: the $limit bound to GRAPH while execute() is pending
    nodes,     \* per invocation: local `nodes`
    links,     \* per invocation: local `links`
    actors,    \* per invocation: local `actors` (name -> node index)
    row,       \* per invocation: the row bound by `while let Some(row)`
    target,    \* per invocation: local `target`
    cast,      \* per invocation: the part of `cast` the for loop has not visited
    resp,      \* per invocation: the Result<BrowseResponse> returned
    seen,      \* history: the rows rows.next() has delivered to the invocation
    fault,     \* history: the call that failed in the invocation, if any
    db,        \* the datastore: per title, the Movie node (if any) and its properties
    svcPc,     \* position in Service::movie / Service::vote
    svcTitle,  \* the `title` argument of the call in progress
    svcRow,    \* Service::movie: the Option<Row> rows.next() returned
    svcResp,   \* the Result<Movie> / Result<Voted> returned
    svcFault,  \* history: the call that failed in the request, if any
    svcCalls   \* history: per title, the number of vote calls that returned Ok

gvars == <<pc, browse, query, nodes, links, actors, row, target, cast, resp, seen, fault>>
svars == <<db, svcPc, svcTitle, svcRow, svcResp, svcFault, svcCalls>>
vars == <<pc, browse, query, nodes, links, actors, row, target, cast, resp, seen, fault,
          db, svcPc, svcTitle, svcRow, svcResp, svcFault, svcCalls>>

(***************************************************************************)
(* Bounds of the model.                                                    *)
(***************************************************************************)
MaxRows == 2
MaxCast == 2
MaxLimit == 2
ConcRows == 2
ConcCast == 1
MaxVotes == 2

\* browse.limit.unwrap_or(100)
DefaultLimit == 100

\* The invocations of Service::graph that may be in flight at once.
Req == {"r1", "r2"}

\* Movie titles and person names the datastore holds.  "Al" is both a title
\* and a name; "Al" and "al" differ only in case.
Titles == {"Heat", "Al"}
Names == {"Al", "al"}
\* m.title of a Movie node without a title: row.get::<String>("movie") fails.
NullTitle == "<null>"
\* An element of the cast column that is no string: row.get::<Vec<&str>>("cast") fails.
NonString == "<int>"

None == <<>>
Some(x) == <<x>>

(***************************************************************************)
(* Library operations the code uses.                                       *)
(***************************************************************************)
\* Option::unwrap_or
UnwrapOr(opt, default) == IF opt = None THEN default ELSE opt[1]

\* Vec::push
Push(v, e) == Append(v, e)

\* Vec::len
VecLen(v) == Len(v)

\* HashMap::get
MapGet(m, k) == IF k \in DOMAIN m THEN Some(m[k]) ELSE None

\* HashMap::insert
MapInsert(m, k, v) == [x \in (DOMAIN m) \cup {k} |-> IF x = k THEN v ELSE m[x]]

\* HashMap::new
EmptyMap == [x \in {} |-> 0]

MkNode(title, label) == [title |-> title, label |-> label]
MkLink(source, target_) == [source |-> source, target |-> target_]

\* Result<BrowseResponse>: Ok(BrowseResponse { nodes, links }) or Err(report).
\* An Err carries no node and no link.
NoResp == [tag |-> "None", nodes |-> <<>>, links |-> <<>>]
OkResp(ns, ls) == [tag |-> "Ok", nodes |-> ns, links |-> ls]
ErrResp == [tag |-> "Err", nodes |-> <<>>, links |-> <<>>]

(***************************************************************************)
(* The inputs.                                                             *)
(***************************************************************************)
\* Query<Browse>: limit is an Option<i32>.
Browses == {None} \cup {Some(n) : n \in (0 - MaxLimit)..MaxLimit}

CastsUpTo(n) == UNION {[1..k -> Names \cup {NonString}] : k \in 0..n}

\* The rows a stream of GRAPH may deliver: a movie column and a cast column.
\* The stream is taken as the driver delivers it; nothing is assumed of how the
\* datastore evaluates GRAPH (one row per title, at most $limit rows).
RowsUpTo(n) == [movie : Titles \cup {NullTitle}, cast : CastsUpTo(n)]

NoRow == [movie |-> NullTitle, cast |-> <<>>]

(***************************************************************************)
(* Service::graph, expression by expression.                               *)
(***************************************************************************)
\* let limit = browse.limit.unwrap_or(100);
BindLimit(b) == UnwrapOr(b, DefaultLimit)

\* A variant of TargetIndex: the length is read after the movie node is pushed.
TargetIndexAfterPush(ns) == VecLen(ns) + 1

\* let target = nodes.len();
TargetIndex(ns) == VecLen(ns)

\* A variant of MovieNodes: a title some node already has adds no node.
MovieNodesDedup(ns, movie) ==
    IF \E i \in 1..Len(ns) : ns[i].title = movie THEN ns ELSE Push(ns, MkNode(movie, "movie"))

\* nodes.push(Node { title: movie, label: "movie" });
MovieNodes(ns, movie) == Push(ns, MkNode(movie, "movie"))

\* A variant of ActorKey: the key ignores the case of the name.
ActorKeyFolded(actor) == IF actor = "al" THEN "Al" ELSE actor

\* The key under which an actor is looked up and recorded: the name itself
\* (actors.get(actor), actors.insert(actor.to_owned(), ..)).
ActorKey(actor) == actor

\* A variant of ActorIsNew: the lookup never finds the name.
ActorNeverFound(m, actor) == TRUE

\* match actors.get(actor): the None arm is taken.
ActorIsNew(m, actor) == MapGet(m, ActorKey(actor)) = None

\* The value of the match expression.
ActorSource(m, actor, ns) ==
    IF ActorIsNew(m, actor) THEN VecLen(ns) ELSE MapGet(m, ActorKey(actor))[1]

\* A variant of ActorsAfter: the index is recorded at every occurrence.
ActorsAfterReinsert(m, actor, ns) == MapInsert(m, ActorKey(actor), VecLen(ns))

\* actors after the match expression.
ActorsAfter(m, actor, ns) ==
    IF ActorIsNew(m, actor) THEN MapInsert(m, ActorKey(actor), VecLen(ns)) ELSE m

\* nodes after the match expression.
ActorNodes(m, actor, ns) ==
    IF ActorIsNew(m, actor) THEN Push(ns, MkNode(actor, "actor")) ELSE ns

\* A variant of ActorsScope: one map for all invocations.
ActorsScopeShared(r) == "r1"

\* The map an invocation reads and writes: its own local.
ActorsScope(r) == r

\* row.get::<String>("movie") succeeds.
MovieDecodes(rw) == rw.movie # NullTitle

\* row.get::<Vec<&str>>("cast") succeeds.
CastDecodes(rw) == \A i \in 1..Len(rw.cast) : rw.cast[i] # NonString

\* A variant of Fail: the loop is left and what was assembled is returned.
FailPartial(r, what) ==
    /\ pc' = [pc EXCEPT ![r] = "done"]
    /\ resp' = [resp EXCEPT ![r] = OkResp(nodes[r], links[r])]
    /\ fault' = [fault EXCEPT ![r] = what]
    /\ nodes' = [nodes EXCEPT ![r] = <<>>]
    /\ links' = [links EXCEPT ![r] = <<>>]
    /\ actors' = [actors EXCEPT ![r] = EmptyMap]
    /\ row' = [row EXCEPT ![r] = NoRow]
    /\ target' = [target EXCEPT ![r] = 0]
    /\ cast' = [cast EXCEPT ![r] = <<>>]

\* An `?` that takes its Err arm: the function returns the error and its
\* locals are dropped.
Fail(r, what) ==
    /\ pc' = [pc EXCEPT ![r] = "done"]
    /\ resp' = [resp EXCEPT ![r] = ErrResp]
    /\ fault' = [fault EXCEPT ![r] = what]
    /\ nodes' = [nodes EXCEPT ![r] = <<>>]
    /\ links' = [links EXCEPT ![r] = <<>>]
    /\ actors' = [actors EXCEPT ![ActorsScope(r)] = EmptyMap]
    /\ row' = [row EXCEPT ![r] = NoRow]
    /\ target' = [target EXCEPT ![r] = 0]
    /\ cast' = [cast EXCEPT ![r] = <<>>]

\* graph() is called: the limit is defaulted and the query submitted.
GraphCall(r, b) ==
    /\ pc[r] = "idle"
    /\ browse' = [browse EXCEPT ![r] = b]
    /\ query' = [query EXCEPT ![r] = Some(BindLimit(b))]
    /\ pc' = [pc EXCEPT ![r] = "execute"]
    /\ UNCHANGED <<nodes, links, actors, row, target, cast, resp, seen, fault>>
    /\ UNCHANGED svars

\* self.db.execute(..).await? returns the row stream; the locals are created.
ExecuteOk(r) ==
    /\ pc[r] = "execute"
    /\ pc' = [pc EXCEPT ![r] = "next"]
    /\ actors' = [actors EXCEPT ![ActorsScope(r)] = EmptyMap]
    /\ nodes' = [nodes EXCEPT ![r] = <<>>]
    /\ links' = [links EXCEPT ![r] = <<>>]
    /\ query' = [query EXCEPT ![r] = None]
    /\ browse' = [browse EXCEPT ![r] = None]
    /\ UNCHANGED <<row, target, cast, resp, seen, fault>>
    /\ UNCHANGED svars

\* self.db.execute(..).await? fails.
ExecuteErr(r) ==
    /\ pc[r] = "execute"
    /\ Fail(r, "execute")
    /\ query' = [query EXCEPT ![r] = None]
    /\ browse' = [browse EXCEPT ![r] = None]
    /\ UNCHANGED seen
    /\ UNCHANGED svars

\* rows.next().await? returns Some(row).
NextSome(r, rw) ==
    /\ pc[r] = "next"
    /\ row' = [row EXCEPT ![r] = rw]
    /\ seen' = [seen EXCEPT ![r] = Append(@, rw)]
    /\ pc' = [pc EXCEPT ![r] = "movie"]
    /\ UNCHANGED <<browse, query, nodes, links, actors, target, cast, resp, fault>>
    /\ UNCHANGED svars

\* rows.next().await? returns None: the loop ends and the response is returned.
NextNone(r) ==
    /\ pc[r] = "next"
    /\ pc' = [pc EXCEPT ![r] = "done"]
    /\ resp' = [resp EXCEPT ![r] = OkResp(nodes[r], links[r])]
    /\ nodes' = [nodes EXCEPT ![r] = <<>>]
    /\ links' = [links EXCEPT ![r] = <<>>]
    /\ actors' = [actors EXCEPT ![ActorsScope(r)] = EmptyMap]
    /\ row' = [row EXCEPT ![r] = NoRow]
    /\ target' = [target EXCEPT ![r] = 0]
    /\ cast' = [cast EXCEPT ![r] = <<>>]
    /\ UNCHANGED <<browse, query, seen, fault>>
    /\ UNCHANGED svars

\* rows.next().await? fails.
NextErr(r) ==
    /\ pc[r] = "next"
    /\ Fail(r, "next")
    /\ UNCHANGED <<browse, query, seen>>
    /\ UNCHANGED svars

\* let movie = row.get::<String>("movie")?; let target = nodes.len(); nodes.push(..)
GetMovieOk(r) ==
    /\ pc[r] = "movie"
    /\ MovieDecodes(row[r])
    /\ target' = [target EXCEPT ![r] = TargetIndex(nodes[r])]
    /\ nodes' = [nodes EXCEPT ![r] = MovieNodes(nodes[r], row[r].movie)]
    /\ pc' = [pc EXCEPT ![r] = "cast"]
    /\ UNCHANGED <<browse, query, links, actors, row, cast, resp, seen, fault>>
    /\ UNCHANGED svars

\* row.get::<String>("movie")? fails.
GetMovieErr(r) ==
    /\ pc[r] = "movie"
    /\ ~MovieDecodes(row[r])
    /\ Fail(r, "movie")
    /\ UNCHANGED <<browse, query, seen>>
    /\ UNCHANGED svars

\* let cast = row.get::<Vec<&str>>("cast")?; the for loop starts.
GetCastOk(r) ==
    /\ pc[r] = "cast"
    /\ CastDecodes(row[r])
    /\ cast' = [cast EXCEPT ![r] = row[r].cast]
    /\ pc' = [pc EXCEPT ![r] = IF row[r].cast = <<>> THEN "next" ELSE "actor"]
    /\ UNCHANGED <<browse, query, nodes, links, actors, row, target, resp, seen, fault>>
    /\ UNCHANGED svars

\* row.get::<Vec<&str>>("cast")? fails.
GetCastErr(r) ==
    /\ pc[r] = "cast"
    /\ ~CastDecodes(row[r])
    /\ Fail(r, "cast")
    /\ UNCHANGED <<browse, query, seen>>
    /\ UNCHANGED svars

\* One iteration of `for actor in cast`.
ActorStep(r) ==
    /\ pc[r] = "actor"
    /\ cast[r] # <<>>
    /\ LET actor == Head(cast[r])
           m == actors[ActorsScope(r)]
           source == ActorSource(m, actor, nodes[r])
       IN  /\ actors' = [actors EXCEPT ![ActorsScope(r)] = ActorsAfter(m, actor, nodes[r])]
           /\ nodes' = [nodes EXCEPT ![r] = ActorNodes(m, actor, nodes[r])]
           /\ links' = [links EXCEPT ![r] = Push(links[r], MkLink(source, target[r]))]
    /\ cast' = [cast EXCEPT ![r] = Tail(cast[r])]
    /\ pc' = [pc EXCEPT ![r] = IF Tail(cast[r]) = <<>> THEN "next" ELSE "actor"]
    /\ UNCHANGED <<browse, query, row, target, resp, seen, fault>>
    /\ UNCHANGED svars

GraphInit ==
    /\ pc = [r \in Req |-> "idle"]
    /\ browse = [r \in Req |-> None]
    /\ query = [r \in Req |-> None]
    /\ nodes = [r \in Req |-> <<>>]
    /\ links = [r \in Req |-> <<>>]
    /\ actors = [r \in Req |-> EmptyMap]
    /\ row = [r \in Req |-> NoRow]
    /\ target = [r \in Req |-> 0]
    /\ cast = [r \in Req |-> <<>>]
    /\ resp = [r \in Req |-> NoResp]
    /\ seen = [r \in Req |-> <<>>]
    /\ fault = [r \in Req |-> "none"]

(***************************************************************************)
(* The datastore, Service::movie and Service::vote.                        *)
(***************************************************************************)
\* A title's Movie node: whether it exists, its votes property (None: not
\* set) and the names of the persons related to it.
DbMovies ==
    {[exists |-> FALSE, votes |-> None, cast |-> <<>>]}
    \cup [exists : {TRUE}, votes : {None, Some(0)}, cast : {<<>>, <<"Al">>}]

\* #[derive(Default)] struct Movie: every field None.
DefaultMovie ==
    [released |-> None, title |-> None, tagline |-> None, votes |-> None, cast |-> None]

\* FIND_MOVIE: no row when no Movie has the title, else one row (title, cast).
FindMovie(d, t) ==
    IF d[t].exists THEN Some([title |-> t, cast |-> d[t].cast]) ELSE None

\* r.to::<Movie>() on a row that decodes: the columns title and cast are set,
\* the columns the query does not return are None.
DecodeMovie(rw) ==
    [released |-> None, title |-> Some(rw.title), tagline |-> None, votes |-> None,
     cast |-> Some(rw.cast)]

\* Result<Movie> / Result<Voted>
SvcNone == [tag |-> "None", op |-> "none", movie |-> None, updates |-> None]
SvcErr(op) == [tag |-> "Err", op |-> op, movie |-> None, updates |-> None]
MovieOk(m) == [tag |-> "Ok", op |-> "movie", movie |-> Some(m), updates |-> None]
VotedOk(n) == [tag |-> "Ok", op |-> "vote", movie |-> None, updates |-> Some(n)]

\* A variant of MovieResult: no row is an error.
MovieResultNotFound(optRow) ==
    IF optRow = None THEN SvcErr("movie") ELSE MovieOk(DecodeMovie(optRow[1]))

\* .map(|r| r.to::<Movie>()).transpose()?.unwrap_or_default(), when to() succeeds.
MovieResult(optRow) ==
    IF optRow = None THEN MovieOk(DefaultMovie) ELSE MovieOk(DecodeMovie(optRow[1]))

\* VOTE_IN_MOVIE: SET movie.votes = coalesce(movie.votes, 0) + 1 on the
\* Movie with the title, if there is one.
ApplyVote(d, t) ==
    IF d[t].exists
    THEN [d EXCEPT ![t].votes = Some(UnwrapOr(d[t].votes, 0) + 1)]
    ELSE d

\* A variant of VoteUpdates: the movie.votes the statement returns (0 without a row).
VoteUpdatesReturned(d, t) == UnwrapOr(d[t].votes, 0)

\* Voted { updates: 1 }
VoteUpdates(d, t) == 1

SvcFail(op, what) ==
    /\ svcPc' = "done"
    /\ svcResp' = SvcErr(op)
    /\ svcFault' = what
    /\ svcRow' = None

MovieCall(t) ==
    /\ svcPc = "idle"
    /\ svcPc' = "movie_execute"
    /\ svcTitle' = t
    /\ UNCHANGED <<db, svcRow, svcResp, svcFault, svcCalls>>
    /\ UNCHANGED gvars

\* self.db.execute(..).await? returns the row stream.
MovieExecuteOk ==
    /\ svcPc = "movie_execute"
    /\ svcPc' = "movie_next"
    /\ UNCHANGED <<db, svcTitle, svcRow, svcResp, svcFault, svcCalls>>
    /\ UNCHANGED gvars

MovieExecuteErr ==
    /\ svcPc = "movie_execute"
    /\ SvcFail("movie", "execute")
    /\ UNCHANGED <<db, svcTitle, svcCalls>>
    /\ UNCHANGED gvars

\* rows.next().await? returns the row, or None.
MovieNextOk ==
    /\ svcPc = "movie_next"
    /\ svcRow' = FindMovie(db, svcTitle)
    /\ svcPc' = "movie_decode"
    /\ UNCHANGED <<db, svcTitle, svcResp, svcFault, svcCalls>>
    /\ UNCHANGED gvars

MovieNextErr ==
    /\ svcPc = "movie_next"
    /\ SvcFail("movie", "next")
    /\ UNCHANGED <<db, svcTitle, svcCalls>>
    /\ UNCHANGED gvars

\* The row, if any, decodes; Ok(movie) is returned.
MovieDecodeOk ==
    /\ svcPc = "movie_decode"
    /\ svcResp' = MovieResult(svcRow)
    /\ svcPc' = "done"
    /\ svcRow' = None
    /\ UNCHANGED <<db, svcTitle, svcFault, svcCalls>>
    /\ UNCHANGED gvars

\* r.to::<Movie>() fails on the row.
MovieDecodeErr ==
    /\ svcPc = "movie_decode"
    /\ svcRow # None
    /\ SvcFail("movie", "decode")
    /\ UNCHANGED <<db, svcTitle, svcCalls>>
    /\ UNCHANGED gvars

VoteCall(t) ==
    /\ svcPc = "idle"
    /\ svcCalls[t] < MaxVotes
    /\ UnwrapOr(db[t].votes, 0) < MaxVotes
    /\ svcPc' = "vote_run"
    /\ svcTitle' = t
    /\ UNCHANGED <<db, svcRow, svcResp, svcFault, svcCalls>>
    /\ UNCHANGED gvars

\* self.db.run(..).await? succeeds; Ok(Voted { updates: 1 }) is returned.
VoteRunOk ==
    /\ svcPc = "vote_run"
    /\ db' = ApplyVote(db, svcTitle)
    /\ svcResp' = VotedOk(VoteUpdates(db', svcTitle))
    /\ svcCalls' = [svcCalls EXCEPT ![svcTitle] = @ + 1]
    /\ svcPc' = "done"
    /\ UNCHANGED <<svcTitle, svcRow, svcFault>>
    /\ UNCHANGED gvars

\* self.db.run(..).await? fails, before or after the statement took effect.
VoteRunErr ==
    /\ svcPc = "vote_run"
    /\ \E applied \in BOOLEAN : db' = IF applied THEN ApplyVote(db, svcTitle) ELSE db
    /\ SvcFail("vote", "run")
    /\ UNCHANGED <<svcTitle, svcCalls>>
    /\ UNCHANGED gvars

\* The handler has sent the response; the next request is served.
SvcReturn ==
    /\ svcPc = "done"
    /\ svcPc' = "idle"
    /\ svcResp' = SvcNone
    /\ svcFault' = "none"
    /\ UNCHANGED <<db, svcTitle, svcRow, svcCalls>>
    /\ UNCHANGED gvars

SvcStep ==
    \/ \E t \in Titles : MovieCall(t)
    \/ MovieExecuteOk
    \/ MovieExecuteErr
    \/ MovieNextOk
    \/ MovieNextErr
    \/ MovieDecodeOk
    \/ MovieDecodeErr
    \/ \E t \in Titles : VoteCall(t)
    \/ VoteRunOk
    \/ VoteRunErr
    \/ SvcReturn

SvcInit ==
    /\ svcPc = "idle"
    /\ svcTitle = "Heat"
    /\ svcRow = None
    /\ svcResp = SvcNone
    /\ svcFault = "none"
    /\ svcCalls = [t \in Titles |-> 0]

EmptyDb == [t \in Titles |-> [exists |-> FALSE, votes |-> None, cast |-> <<>>]]

(***************************************************************************)
(* Spec: one browse request.                                               *)
(***************************************************************************)
Init == GraphInit /\ SvcInit /\ db = EmptyDb

Next ==
    \/ \E b \in Browses : GraphCall("r1", b)
    \/ ExecuteOk("r1")
    \/ ExecuteErr("r1")
    \/ \E rw \in RowsUpTo(MaxCast) : Len(seen["r1"]) < MaxRows /\ NextSome("r1", rw)
    \/ NextNone("r1")
    \/ NextErr("r1")
    \/ GetMovieOk("r1")
    \/ GetMovieErr("r1")
    \/ GetCastOk("r1")
    \/ GetCastErr("r1")
    \/ ActorStep("r1")

Spec == Init /\ [][Next]_vars

(***************************************************************************)
(* SpecConc: the browse requests of Req in flight together, their steps    *)
(* interleaved.  ConcRows bounds the rows delivered to all of them.        *)
(***************************************************************************)
RECURSIVE TotalSeen(_)
TotalSeen(rs) ==
    IF rs = {} THEN 0
    ELSE LET r == CHOOSE x \in rs : TRUE IN Len(seen[r]) + TotalSeen(rs \ {r})

NextConc ==
    \E r \in Req :
        \/ \E b \in Browses : GraphCall(r, b)
        \/ ExecuteOk(r)
        \/ ExecuteErr(r)
        \/ \E rw \in RowsUpTo(ConcCast) : TotalSeen(Req) < ConcRows /\ NextSome(r, rw)
        \/ NextNone(r)
        \/ NextErr(r)
        \/ GetMovieOk(r)
        \/ GetMovieErr(r)
        \/ GetCastOk(r)
        \/ GetCastErr(r)
        \/ ActorStep(r)

SpecConc == Init /\ [][NextConc]_vars

(***************************************************************************)
(* SpecSvc: fetch-entity and increment-counter requests, one after         *)
(* another, against a datastore that holds any of the titles.              *)
(***************************************************************************)
InitSvc == GraphInit /\ SvcInit /\ db \in [Titles -> DbMovies]

NextSvc == SvcStep

SpecSvc == InitSvc /\ [][NextSvc]_vars

(***************************************************************************)
(* The loop of Service::graph as a function of the rows it consumes.       *)
(***************************************************************************)
RECURSIVE AddCast(_, _, _)
AddCast(st, tgt, cs) ==
    IF cs = <<>> THEN st
    ELSE LET actor == Head(cs)
         IN  AddCast([nodes |-> ActorNodes(st.actors, actor, st.nodes),
                      links |-> Push(st.links, MkLink(ActorSource(st.actors, actor, st.nodes), tgt)),
                      actors |-> ActorsAfter(st.actors, actor, st.nodes)],
                     tgt, Tail(cs))

AddRow(st, rw) ==
    AddCast([st EXCEPT !.nodes = MovieNodes(st.nodes, rw.movie)], TargetIndex(st.nodes), rw.cast)

RECURSIVE AssembleRows(_, _)
AssembleRows(st, rows) ==
    IF rows = <<>> THEN st ELSE AssembleRows(AddRow(st, Head(rows)), Tail(rows))

Assemble(rows) ==
    AssembleRows([nodes |-> <<>>, links |-> <<>>, actors |-> EmptyMap], rows)

(***************************************************************************)
(* Properties.                                                             *)
(***************************************************************************)
RECURSIVE SumCast(_)
SumCast(rows) == IF rows = <<>> THEN 0 ELSE Len(Head(rows).cast) + SumCast(Tail(rows))

RECURSIVE FlatCast(_)
FlatCast(rows) == IF rows = <<>> THEN <<>> ELSE Head(rows).cast \o FlatCast(Tail(rows))

CastNames(rows) == {FlatCast(rows)[k] : k \in 1..Len(FlatCast(rows))}

MovieCount(ns) == Cardinality({i \in 1..Len(ns) : ns[i].label = "movie"})

IsPrefix(s, t) == Len(s) <= Len(t) /\ \A i \in 1..Len(s) : s[i] = t[i]

LinksInRange(ns, ls) ==
    \A k \in 1..Len(ls) :
        /\ 0 <= ls[k].source /\ ls[k].source < Len(ns)
        /\ 0 <= ls[k].target /\ ls[k].target < Len(ns)

Assembling == {"next", "movie", "cast", "actor"}

\* C1: a response has N + D nodes and as many links as the cast lists have
\* entries, N the number of rows consumed and D the number of distinct cast names.
C1_NodeAndLinkCount ==
    \A r \in Req :
        resp[r].tag = "Ok" =>
            /\ Len(resp[r].nodes) = Len(seen[r]) + Cardinality(CastNames(seen[r]))
            /\ Len(resp[r].links) = SumCast(seen[r])

\* A response to two rows, a name twice in one cast list and again in the next row.
C1_Witness ==
    /\ resp["r1"].tag = "Ok"
    /\ seen["r1"] = <<[movie |-> "Heat", cast |-> <<"Al", "Al">>],
                      [movie |-> "Al", cast |-> <<"al", "Al">>]>>
    /\ Len(resp["r1"].nodes) = 4
    /\ Len(resp["r1"].links) = 4

\* C2: in a response no two actor nodes have the same title, and the k-th
\* link's source is the actor node titled with the k-th cast name consumed, so
\* every occurrence of a name has the same source index.
C2_ActorsDeduplicated ==
    \A r \in Req :
        resp[r].tag = "Ok" =>
            LET ns == resp[r].nodes
                ls == resp[r].links
                names == FlatCast(seen[r])
            IN  /\ \A i, j \in 1..Len(ns) :
                       (i # j /\ ns[i].label = "actor" /\ ns[j].label = "actor")
                           => ns[i].title # ns[j].title
                /\ Len(ls) = Len(names)
                /\ \A k \in 1..Len(ls) :
                       /\ ls[k].source < Len(ns)
                       /\ ns[ls[k].source + 1] = MkNode(names[k], "actor")
                /\ \A k, l \in 1..Len(ls) :
                       names[k] = names[l] => ls[k].source = ls[l].source

\* A response in which both rows name "Al" and both name "al".
C2_Witness ==
    /\ resp["r1"].tag = "Ok"
    /\ seen["r1"] = <<[movie |-> "Heat", cast |-> <<"Al", "al">>],
                      [movie |-> "Al", cast |-> <<"al", "Al">>]>>
    /\ resp["r1"].links = <<MkLink(1, 0), MkLink(2, 0), MkLink(2, 3), MkLink(1, 3)>>

\* C3: during the assembly and in the response, every link's source and
\* target are indices of the node list.
C3_LinksInRange ==
    \A r \in Req :
        /\ LinksInRange(nodes[r], links[r])
        /\ LinksInRange(resp[r].nodes, resp[r].links)

\* Inside the second row's for loop, after a link to an actor of the first row.
C3_Witness ==
    /\ pc["r1"] = "actor"
    /\ seen["r1"] = <<[movie |-> "Heat", cast |-> <<"Al">>],
                      [movie |-> "Al", cast |-> <<"Al", "al">>]>>
    /\ links["r1"] = <<MkLink(1, 0), MkLink(1, 2)>>
    /\ Len(nodes["r1"]) = 3

\* C4: every row consumed adds one node labelled "movie", whatever titles
\* the node list already holds: the movie nodes are as many as the rows.
C4_MoviePerRow ==
    \A r \in Req :
        /\ resp[r].tag = "Ok" => MovieCount(resp[r].nodes) = Len(seen[r])
        /\ pc[r] \in {"next", "cast", "actor"} => MovieCount(nodes[r]) = Len(seen[r])
        /\ pc[r] = "movie" => MovieCount(nodes[r]) = Len(seen[r]) - 1

\* Two rows with the title "Al", which is also the title of an actor node.
C4_Witness ==
    /\ resp["r1"].tag = "Ok"
    /\ seen["r1"] = <<[movie |-> "Al", cast |-> <<"Al">>], [movie |-> "Al", cast |-> <<>>]>>
    /\ resp["r1"].nodes = <<MkNode("Al", "movie"), MkNode("Al", "actor"), MkNode("Al", "movie")>>

\* C5: an invocation in which a call failed returns an error that carries no
\* node and no link; an Ok response is the assembly of every row the stream
\* delivered.
C5_NoPartialResponse ==
    \A r \in Req :
        /\ fault[r] # "none" => pc[r] = "done" /\ resp[r] = ErrResp
        /\ pc[r] = "done" => resp[r].tag \in {"Ok", "Err"}
        /\ resp[r].tag = "Ok" =>
               /\ fault[r] = "none"
               /\ resp[r] = OkResp(Assemble(seen[r]).nodes, Assemble(seen[r]).links)

\* The cast column of the second row failed to decode, after three nodes were assembled.
C5_Witness ==
    /\ pc["r1"] = "done"
    /\ fault["r1"] = "cast"
    /\ seen["r1"] = <<[movie |-> "Heat", cast |-> <<"Al">>],
                      [movie |-> "Al", cast |-> <<"al", NonString>>]>>
    /\ resp["r1"] = ErrResp

\* C9: while an invocation assembles, its node list and link list only grow
\* at the end and no entry of its map changes; the response is the lists as
\* they are when the stream ends.
C9_AppendOnly ==
    [][\A r \in Req :
           /\ (pc[r] \in Assembling /\ pc'[r] \in Assembling) =>
                  /\ IsPrefix(nodes[r], nodes'[r])
                  /\ IsPrefix(links[r], links'[r])
                  /\ \A k \in DOMAIN actors[r] :
                         k \in DOMAIN actors'[r] /\ actors'[r][k] = actors[r][k]
           /\ (pc[r] \in Assembling /\ resp'[r].tag = "Ok") =>
                  resp'[r] = OkResp(nodes[r], links[r])]_vars

\* The second row's loop has met a name the map holds and one it does not.
C9_Witness ==
    /\ pc["r1"] = "next"
    /\ seen["r1"] = <<[movie |-> "Heat", cast |-> <<"Al">>],
                      [movie |-> "Al", cast |-> <<"Al", "al">>]>>
    /\ Len(nodes["r1"]) = 4
    /\ Len(links["r1"]) = 3

\* C8: the limit bound to the query is positive: 100 when the request has
\* none, else the request's own.
C8_LimitPositive ==
    \A r \in Req :
        pc[r] = "execute" =>
            /\ query[r] # None
            /\ query[r][1] = (IF browse[r] = None THEN 100 ELSE browse[r][1])
            /\ query[r][1] > 0

\* C10: under every interleaving, what an invocation has assembled between
\* two rows, and its response, are the assembly of its own rows alone.
C10_Isolated ==
    \A r \in Req :
        /\ pc[r] = "next" =>
               [nodes |-> nodes[r], links |-> links[r], actors |-> actors[r]] = Assemble(seen[r])
        /\ resp[r].tag = "Ok" =>
               resp[r] = OkResp(Assemble(seen[r]).nodes, Assemble(seen[r]).links)

\* Both invocations are between rows, each after a row that names "Al".
C10_Witness ==
    /\ pc["r1"] = "next" /\ pc["r2"] = "next"
    /\ seen["r1"] = <<[movie |-> "Heat", cast |-> <<"Al">>]>>
    /\ seen["r2"] = <<[movie |-> "Al", cast |-> <<"Al">>]>>
    /\ nodes["r2"] = <<MkNode("Al", "movie"), MkNode("Al", "actor")>>

\* C6: fetch-entity on a title without a Movie returns Ok with every field
\* None; it returns Err only when execute, next or the decoding of a row failed.
C6_AbsentTitleIsDefault ==
    (svcPc = "done" /\ svcResp.op = "movie") =>
        /\ svcResp.tag \in {"Ok", "Err"}
        /\ svcResp.tag = "Err" <=> svcFault \in {"execute", "next", "decode"}
        /\ svcFault = "decode" => db[svcTitle].exists
        /\ (~db[svcTitle].exists /\ svcFault = "none") =>
               /\ svcResp.tag = "Ok"
               /\ svcResp.movie # None
               /\ svcResp.movie[1].released = None
               /\ svcResp.movie[1].title = None
               /\ svcResp.movie[1].tagline = None
               /\ svcResp.movie[1].votes = None
               /\ svcResp.movie[1].cast = None

\* fetch-entity has returned for a title the datastore does not hold.
C6_Witness ==
    /\ svcPc = "done"
    /\ svcResp.op = "movie"
    /\ svcResp.tag = "Ok"
    /\ ~db[svcTitle].exists

\* C7: a vote whose statement ran returns updates = 1, a vote whose statement
\* failed returns an error and no count.
C7_VoteCountIsOne ==
    (svcPc = "done" /\ svcResp.op = "vote") =>
        IF svcFault = "none"
        THEN svcResp.tag = "Ok" /\ svcResp.updates = Some(1)
        ELSE svcResp.tag = "Err" /\ svcResp.updates = None

\* The second vote on "Heat", which exists and has two votes, has returned,
\* after a vote on "Al", which does not exist.
C7_Witness ==
    /\ svcPc = "done"
    /\ svcResp.op = "vote"
    /\ svcResp.tag = "Ok"
    /\ svcTitle = "Heat"
    /\ svcCalls["Heat"] = 2
    /\ db["Heat"].votes = Some(2)
    /\ svcCalls["Al"] = 1
    /\ ~db["Al"].exists

====
